---- MODULE Spec2Model ----
(***************************************************************************)
(* Polling / streaming primitives of the Nomad client:                     *)
(*   NomadAllocationModule.streamLogs   src/src/modules/allocations.ts     *)
(*   NomadTaskModule.streamLogs         src/src/modules/task.ts            *)
(*   NomadAllocationModule.waitForStatus, NomadTaskModule.waitForState,    *)
(*   NomadJob.waitForDeployment                                            *)
(* Each asynchronous function is modelled by its await points: one action  *)
(* runs the code from one await to the next, as the single-threaded event  *)
(* loop does.  Time is counted in milliseconds.                            *)
(***************************************************************************)
EXTENDS Integers, Sequences, FiniteSets

VARIABLES
    now,        \* Date.now(), in ms since the model started
    streams,    \* one record per streamLogs operation (closure state + observations)
    wait,       \* the record of the wait helper that was called
    cleanup,    \* the record of the stopAndCleanup call
    deploy,     \* the record of the NomadJob.deploy call
    manager     \* NomadConfigManager: its static instance and who holds it

vars == <<now, streams, wait, cleanup, deploy, manager>>

----------------------------------------------------------------------------
(* Bounds of the model *)

\* number of log reads one stream may issue
MaxReads == 2
\* number of times the caller calls a wait helper in a row
MaxCalls == 2
\* the clock stops advancing here
MaxTime == 7000
\* the clock stops here while two streams run side by side (milliseconds)
MaxPairTime == 3000
\* number of log reads of each of two streams compared side by side
MaxLockReads == 3
\* number of allocations a job has
MaxAllocs == 2
\* number of NomadConfigManager instances created (one more than the resets)
MaxInstances == 2
\* longest time one request of stopAndCleanup stays unanswered (milliseconds)
MaxProbeMs == 1000

(* Program constants *)

\* setTimeout(resolve, 1000) in streamLoop
StreamIntervalMs == 1000
\* setTimeout(resolve, 2000) in waitForStatus, waitForState, waitForDeployment
WaitIntervalMs == 2000
\* the clock advances in steps of one stream interval
TickMs == StreamIntervalMs
\* let retries = 30;
CleanupRetries == 30

----------------------------------------------------------------------------
(* Values *)

\* JavaScript undefined, for a response without an Offset field
Undefined == -1

\* the two implementations of streamLogs
StreamIds == {"alloc", "task"}

\* A base64 string is the sequence of its sextets (padding '=' carries none).
EmptyData == << >>
\* "Q" : one sextet, truthy as a string, decodes to no byte at all
OneChar == <<16>>
\* "aGVsbG8=" : base64("hello")
HelloB64 == <<26, 6, 21, 44, 27, 6, 60>>
\* "hello" as code points
Hello == <<104, 101, 108, 108, 111>>

DataSet == {EmptyData, OneChar, HelloB64}
OffsetSet == {Undefined, 0, 2, 5}

\* what handleError can be handed: 404, another HTTP status, no response at all
ErrSet == {"notfound", "server", "network"}

\* what the consumer's onData does when called: returns ("none"), throws an
\* Error ("onData"), throws a value that is not an Error ("nonError")
Thrown == {"none", "onData", "nonError"}

OkResponses == [ok : {TRUE}, Data : DataSet, Offset : OffsetSet, err : {"none"}]
ErrResponses == [ok : {FALSE}, Data : {EmptyData}, Offset : {Undefined}, err : ErrSet]

----------------------------------------------------------------------------
(* Conversions *)

\* Buffer.from(s, 'base64'): 4 sextets give 3 bytes, 3 give 2, 2 give 1, 1 gives 0
RECURSIVE BufferFromBase64(_)
BufferFromBase64(s) ==
    IF Len(s) >= 4 THEN
        LET n == s[1] * 262144 + s[2] * 4096 + s[3] * 64 + s[4]
        IN  <<n \div 65536, (n \div 256) % 256, n % 256>>
                \o BufferFromBase64(SubSeq(s, 5, Len(s)))
    ELSE IF Len(s) = 3 THEN
        LET n == (s[1] * 4096 + s[2] * 64 + s[3]) \div 4
        IN  <<n \div 256, n % 256>>
    ELSE IF Len(s) = 2 THEN
        <<(s[1] * 64 + s[2]) \div 16>>
    ELSE << >>

\* buf.toString('utf-8'): an ASCII byte is its code point, any other byte of the
\* inputs used here is malformed and becomes U+FFFD
BufferToString(buf) ==
    [i \in 1..Len(buf) |-> IF buf[i] < 128 THEN buf[i] ELSE 65533]

\* Number.prototype.toString(): the decimal digits of n >= 0
RECURSIVE ToString(_)
ToString(n) ==
    IF n < 10 THEN <<n>> ELSE ToString(n \div 10) \o <<n % 10>>

\* a query parameter that is not sent
NoParam == << >>

\* JavaScript truthiness of a number-or-undefined
TruthyNumber(v) == v # Undefined /\ v # 0

\* JavaScript truthiness of a string
TruthyString(s) == Len(s) > 0

Last(seq) == seq[Len(seq)]

\* parseInt of a decimal digit string
RECURSIVE ParseInt(_)
ParseInt(ds) ==
    IF Len(ds) = 1 THEN ds[1]
    ELSE ParseInt(SubSeq(ds, 1, Len(ds) - 1)) * 10 + ds[Len(ds)]

\* the offset the server reads from: a request without offset reads from the start
RequestedOffset(param) == IF param = NoParam THEN 0 ELSE ParseInt(param)

----------------------------------------------------------------------------
(* streamLogs *)

\* the offset query parameter of a log read
OffsetParam(v, offset) ==
    IF v = "alloc"
    THEN IF offset # Undefined THEN ToString(offset) ELSE NoParam
    ELSE ToString(offset)

\* let running = true; let offset = 0;  (plus what the model observes)
NewStream(hasOnError) ==
    [pc |-> "idle", running |-> TRUE, offset |-> 0, hasOnError |-> hasOnError,
     inflight |-> 0, wakeAt |-> 0, issuedAt |-> 0, settledAt |-> 0,
     reqLog |-> << >>, respLog |-> << >>,
     onDataCalls |-> << >>, onErrorCalls |-> << >>, cancelAt |-> "never",
     thrown |-> "none"]

\* await this.logs(...) / await this.httpClient.get(...): the request goes out
\* and the loop is suspended until it settles
IssueRead_NoAwait(v, st) ==
    [st EXCEPT !.pc = "sleep", !.inflight = @ + 1,
               !.reqLog = Append(@, OffsetParam(v, st.offset))]

IssueRead(v, st) ==
    [st EXCEPT !.pc = "fetch", !.inflight = @ + 1,
               !.reqLog = Append(@, OffsetParam(v, st.offset))]

\* while (running) { ... }
LoopHead_IgnoreRunning(v, st) == IssueRead(v, st)

LoopHead(v, st) ==
    IF st.running THEN IssueRead(v, st) ELSE [st EXCEPT !.pc = "exit"]

\* if (logData && logData.length > 0)
ShouldEmit_Always(logData) == TRUE

ShouldEmit(logData) == TruthyString(logData) /\ Len(logData) > 0

\* offset = logResponse.Offset;   /   offset = response.data.Offset || offset;
NextOffset(v, offset, resp) ==
    IF v = "alloc" THEN resp.Offset
    ELSE IF TruthyNumber(resp.Offset) THEN resp.Offset ELSE offset

\* error instanceof Error ? error : new Error('Stream error')
AsError_Identity(err) == err

AsError(err) == IF err = "nonError" THEN "StreamError" ELSE err

\* catch (error) { if (onError && running) onError(...); break; }
Catch_NoBreak(v, st, err) ==
    LoopHead(v, [st EXCEPT !.onErrorCalls =
                    IF st.hasOnError /\ st.running THEN Append(@, AsError(err)) ELSE @])

Catch_IgnoreRunning(v, st, err) ==
    [st EXCEPT !.pc = "exit",
               !.onErrorCalls =
                    IF st.hasOnError THEN Append(@, AsError(err)) ELSE @]

Catch(v, st, err) ==
    [st EXCEPT !.pc = "exit",
               !.onErrorCalls =
                    IF st.hasOnError /\ st.running THEN Append(@, AsError(err)) ELSE @]

\* The try block after the read has resolved with resp, up to the next await.
\* thrown: what the consumer's onData throws when it is called, if anything.
OnChunk(v, st, resp, thrown, t) ==
    LET got == [st EXCEPT !.inflight = @ - 1, !.respLog = Append(@, resp)]
    IN  IF TruthyString(resp.Data) THEN
            LET logData == BufferToString(BufferFromBase64(resp.Data))
                emit == ShouldEmit(logData)
                called == IF emit
                          THEN [got EXCEPT !.onDataCalls = Append(@, logData)]
                          ELSE got
            IN  IF emit /\ thrown # "none"
                THEN Catch(v, [called EXCEPT !.thrown = thrown], thrown)
                ELSE [called EXCEPT !.offset = NextOffset(v, st.offset, resp),
                                    !.pc = "sleep",
                                    !.wakeAt = t + StreamIntervalMs]
        ELSE [got EXCEPT !.pc = "sleep", !.wakeAt = t + StreamIntervalMs]

\* the read rejected with err
OnReadError(v, st, resp) ==
    Catch(v, [st EXCEPT !.inflight = @ - 1, !.respLog = Append(@, resp)], resp.err)

\* const stopStreaming = () => { running = false; };
StopStreamingOp_Toggle(st) ==
    [st EXCEPT !.running = ~@,
               !.cancelAt = IF @ = "never" THEN st.pc ELSE @]

StopStreamingOp(st) ==
    [st EXCEPT !.running = FALSE,
               !.cancelAt = IF @ = "never" THEN st.pc ELSE @]

\* What an observer with a clock notes of a step from st to st2 taken at time t:
\* when the last read went out and when the last read settled.
ObserveStream(st, st2, t) ==
    [st2 EXCEPT !.issuedAt = IF Len(st2.reqLog) > Len(st.reqLog) THEN t ELSE @,
                !.settledAt = IF Len(st2.respLog) > Len(st.respLog) THEN t ELSE @]

----------------------------------------------------------------------------
(* Actions of a stream *)

\* streamLogs(...) is called: the closure is created and streamLoop() runs to
\* its first await, so the first read is already out when the cancel function
\* is returned
StreamLogs(s) ==
    /\ streams[s].pc = "idle"
    /\ \E hasOnError \in BOOLEAN :
         streams' = [streams EXCEPT ![s] =
                        ObserveStream(@, LoopHead(s, NewStream(hasOnError)), now)]
    /\ UNCHANGED <<now, wait, cleanup, deploy, manager>>

\* the caller invokes the returned cancel function
StopStreaming_SharedFlag(s) ==
    /\ streams[s].pc # "idle"
    /\ streams' = [t \in StreamIds |->
                      IF t = s THEN StopStreamingOp(streams[t])
                      ELSE [streams[t] EXCEPT !.running = FALSE]]
    /\ UNCHANGED <<now, wait, cleanup, deploy, manager>>

StopStreaming(s) ==
    /\ streams[s].pc # "idle"
    /\ streams' = [streams EXCEPT ![s] = StopStreamingOp(@)]
    /\ UNCHANGED <<now, wait, cleanup, deploy, manager>>

\* the pending read resolves
LogsResolve(s) ==
    /\ streams[s].pc = "fetch"
    /\ \E resp \in OkResponses, thrown \in Thrown :
         streams' = [streams EXCEPT ![s] =
                        ObserveStream(@, OnChunk(s, @, resp, thrown, now), now)]
    /\ UNCHANGED <<now, wait, cleanup, deploy, manager>>

\* the pending read rejects
LogsReject(s) ==
    /\ streams[s].pc = "fetch"
    /\ \E resp \in ErrResponses :
         streams' = [streams EXCEPT ![s] = ObserveStream(@, OnReadError(s, @, resp), now)]
    /\ UNCHANGED <<now, wait, cleanup, deploy, manager>>

\* the 1000 ms timer fires and the loop condition is evaluated again
SleepDone(s) ==
    /\ streams[s].pc = "sleep"
    /\ now >= streams[s].wakeAt
    /\ streams[s].running => Len(streams[s].reqLog) < MaxReads
    /\ streams' = [streams EXCEPT ![s] = ObserveStream(@, LoopHead(s, @), now)]
    /\ UNCHANGED <<now, wait, cleanup, deploy, manager>>

----------------------------------------------------------------------------
(* Wait helpers: waitForStatus, waitForState, waitForDeployment *)

\* which helper: NomadAllocationModule.waitForStatus, NomadTaskModule.waitForState,
\* NomadJob.waitForDeployment
WaitKinds == {"status", "state", "deploy"}

\* type AllocationStatus
AllocationStatus == {"pending", "running", "complete", "failed", "lost"}
\* type TaskState
TaskState == {"pending", "running", "dead"}
\* IJob.Status as the server reports it; "" stands for a job without Status
JobStatus == {"pending", "running", "dead", ""}

\* const terminalStatuses = ['complete', 'failed', 'lost'];
TerminalStatuses == {"complete", "failed", "lost"}

\* the timeoutMs arguments tried
Timeouts == {-2000, 0, 2000, 4000, 6000}

\* IJobSummary.Summary: the task groups' counters, here at most one task group
TaskGroupSummary == [Running : 0..1, Queued : 0..1, Starting : 0..1]
Summaries == {<< >>} \cup {<<tg>> : tg \in TaskGroupSummary}
NoSummary == << >>

\* what the desired status can be for each helper (waitForDeployment takes none)
DesiredOf(kind) ==
    IF kind = "status" THEN AllocationStatus
    ELSE IF kind = "state" THEN TaskState
    ELSE {"running"}

\* const startTime = Date.now();  (plus what the model observes)
NewWait(kind, desired, timeoutMs, t) ==
    [kind |-> kind, pc |-> "idle", desired |-> desired, timeoutMs |-> timeoutMs,
     startTime |-> t, inflight |-> 0, wakeAt |-> 0,
     jobRes |-> "none", sumRes |-> "none", summary |-> NoSummary,
     obsLog |-> << >>, sleeps |-> 0, result |-> "none",
     issuedAt |-> 0, settledAt |-> 0, busyMs |-> 0, doneAt |-> 0,
     calls |-> 0, past |-> {}]

\* return true / return false: the promise resolves
Return(w, b) ==
    [w EXCEPT !.pc = "returned", !.result = IF b THEN "true" ELSE "false"]

\* an exception leaves the async function: the promise rejects
Reject(w) ==
    [w EXCEPT !.pc = "rejected", !.result = "rejected"]

\* await this.get(allocId) / await this.getStatus(...): the probe goes out and
\* the loop is suspended until it settles
IssueProbe(w) ==
    [w EXCEPT !.pc = "probe", !.inflight = @ + 1,
              !.jobRes = IF w.kind = "deploy" THEN "pending" ELSE @,
              !.sumRes = IF w.kind = "deploy" THEN "pending" ELSE @]

\* while (Date.now() - startTime < timeoutMs) { ... }  return false;
WaitLoopHead_EarlyTimeout(w, t) ==
    IF t - w.startTime + WaitIntervalMs < w.timeoutMs
    THEN IssueProbe(w) ELSE Return(w, FALSE)

WaitLoopHead_NoTimeout(w, t) == IssueProbe(w)

WaitLoopHead_Inclusive(w, t) ==
    IF t - w.startTime <= w.timeoutMs THEN IssueProbe(w) ELSE Return(w, FALSE)

WaitLoopHead(w, t) ==
    IF t - w.startTime < w.timeoutMs THEN IssueProbe(w) ELSE Return(w, FALSE)

\* await new Promise(resolve => setTimeout(resolve, 2000));
WaitSleep(w, t) ==
    [w EXCEPT !.pc = "sleep", !.wakeAt = t + WaitIntervalMs, !.sleeps = @ + 1]

\* a probe outcome as the model records it
Obs(ok, status, err) == [ok |-> ok, status |-> status, err |-> err]

\* the probe has settled
Settled(w, obs) ==
    [w EXCEPT !.inflight = @ - 1, !.obsLog = Append(@, obs)]

\* waitForStatus: the try block after this.get(allocId) resolved with ClientStatus
OnAllocation_NoShortcut(w, status, t) ==
    LET got == Settled(w, Obs(TRUE, status, "none"))
    IN  IF status = w.desired THEN Return(got, TRUE) ELSE WaitSleep(got, t)

OnAllocation(w, status, t) ==
    LET got == Settled(w, Obs(TRUE, status, "none"))
    IN  IF status = w.desired THEN Return(got, TRUE)
        ELSE IF status \in TerminalStatuses THEN Return(got, status = w.desired)
        ELSE WaitSleep(got, t)

\* waitForStatus: catch (error) { if (desiredStatus === 'complete') return true; break; }
OnAllocationError_NoSpecialCase(w, err) ==
    Return(Settled(w, Obs(FALSE, "", err)), FALSE)

OnAllocationError(w, err) ==
    LET got == Settled(w, Obs(FALSE, "", err))
    IN  IF w.desired = "complete" THEN Return(got, TRUE) ELSE Return(got, FALSE)

\* waitForState: the try block after this.getStatus(...) resolved with state
OnTaskStatus_NoDeadShortcut(w, state, t) ==
    LET got == Settled(w, Obs(TRUE, state, "none"))
    IN  IF state = w.desired THEN Return(got, TRUE) ELSE WaitSleep(got, t)

OnTaskStatus(w, state, t) ==
    LET got == Settled(w, Obs(TRUE, state, "none"))
    IN  IF state = w.desired THEN Return(got, TRUE)
        ELSE IF state = "dead" THEN Return(got, w.desired = "dead")
        ELSE WaitSleep(got, t)

\* waitForState: catch (error) { break; }   return false;
\* err is an HTTP failure or the 'Task ... not found in allocation' error of getStatus
OnTaskError_Rethrow(w, err) ==
    Reject(Settled(w, Obs(FALSE, "", err)))

OnTaskError(w, err) ==
    Return(Settled(w, Obs(FALSE, "", err)), FALSE)

\* Object.values(summary.Summary).reduce((sum, tg) => sum + tg.Running, 0)
RECURSIVE SumRunning(_)
SumRunning(sm) ==
    IF sm = << >> THEN 0 ELSE sm[1].Running + SumRunning(Tail(sm))

\* ... .reduce((sum, tg) => sum + tg.Running + tg.Queued + tg.Starting, 0)
RECURSIVE SumDesired(_)
SumDesired(sm) ==
    IF sm = << >> THEN 0
    ELSE sm[1].Running + sm[1].Queued + sm[1].Starting + SumDesired(Tail(sm))

\* NomadJob.getStatus: status: job.Status || 'unknown'
StatusOrUnknown(st) == IF TruthyString(st) THEN st ELSE "unknown"

\* waitForDeployment: the loop body after getStatus resolved
OnDeployStatus(w, status, sm, t) ==
    LET got == Settled(w, Obs(TRUE, status, "none"))
    IN  IF status = "running" /\ SumRunning(sm) = SumDesired(sm) /\ SumRunning(sm) > 0
        THEN Return(got, TRUE)
        ELSE WaitSleep(got, t)

\* waitForDeployment has no try/catch: a rejected getStatus rejects the helper
OnDeployError(w, err) ==
    Reject(Settled(w, Obs(FALSE, "", err)))

\* getStatus = Promise.all([this.get(jobId), this.summary(jobId)]): resolves when
\* both requests have resolved
JobResolved(w, status, t) ==
    IF w.sumRes = "ok"
    THEN OnDeployStatus([w EXCEPT !.jobRes = StatusOrUnknown(status)],
                        StatusOrUnknown(status), w.summary, t)
    ELSE [w EXCEPT !.jobRes = StatusOrUnknown(status)]

SummaryResolved(w, sm, t) ==
    IF w.jobRes # "pending"
    THEN OnDeployStatus([w EXCEPT !.sumRes = "ok", !.summary = sm], w.jobRes, sm, t)
    ELSE [w EXCEPT !.sumRes = "ok", !.summary = sm]

\* What an observer with a clock notes of a step from w to w2 taken at time t:
\* when the last probe went out, when it settled, the time spent waiting for
\* probes so far, and when the helper's promise settled.
ObserveWait(w, w2, t) ==
    LET settled == Len(w2.obsLog) > Len(w.obsLog)
        issued == w2.inflight > w.inflight - (IF settled THEN 1 ELSE 0)
        done == w2.pc \in {"returned", "rejected"} /\ w.pc \notin {"returned", "rejected"}
    IN  [w2 EXCEPT !.issuedAt = IF issued THEN t ELSE @,
                   !.settledAt = IF settled THEN t ELSE @,
                   !.busyMs = IF settled THEN @ + (t - w.issuedAt) ELSE @,
                   !.doneAt = IF done THEN t ELSE @]

----------------------------------------------------------------------------
(* Actions of a wait helper *)

\* the helper is called: startTime is taken and the loop runs to its first await
WaitCall ==
    /\ wait.pc = "idle"
    /\ \E kind \in WaitKinds, timeoutMs \in Timeouts :
         \E desired \in DesiredOf(kind) :
            wait' = ObserveWait(wait, WaitLoopHead(NewWait(kind, desired, timeoutMs, now), now), now)
    /\ UNCHANGED <<now, streams, cleanup, deploy, manager>>

\* waitForStatus: GET /v1/allocation/:id resolves
AllocGetResolve ==
    /\ wait.pc = "probe" /\ wait.kind = "status"
    /\ \E status \in AllocationStatus : wait' = ObserveWait(wait, OnAllocation(wait, status, now), now)
    /\ UNCHANGED <<now, streams, cleanup, deploy, manager>>

\* waitForStatus: GET /v1/allocation/:id rejects
AllocGetReject ==
    /\ wait.pc = "probe" /\ wait.kind = "status"
    /\ \E err \in ErrSet : wait' = ObserveWait(wait, OnAllocationError(wait, err), now)
    /\ UNCHANGED <<now, streams, cleanup, deploy, manager>>

\* waitForState: getStatus resolves with the task's state
TaskStatusResolve ==
    /\ wait.pc = "probe" /\ wait.kind = "state"
    /\ \E state \in TaskState : wait' = ObserveWait(wait, OnTaskStatus(wait, state, now), now)
    /\ UNCHANGED <<now, streams, cleanup, deploy, manager>>

\* waitForState: getStatus rejects (HTTP failure, or the task is not in TaskStates)
TaskStatusReject ==
    /\ wait.pc = "probe" /\ wait.kind = "state"
    /\ \E err \in ErrSet \cup {"tasknotfound"} : wait' = ObserveWait(wait, OnTaskError(wait, err), now)
    /\ UNCHANGED <<now, streams, cleanup, deploy, manager>>

\* waitForDeployment: GET /v1/job/:id resolves
JobGetResolve ==
    /\ wait.pc = "probe" /\ wait.kind = "deploy" /\ wait.jobRes = "pending"
    /\ \E status \in JobStatus : wait' = ObserveWait(wait, JobResolved(wait, status, now), now)
    /\ UNCHANGED <<now, streams, cleanup, deploy, manager>>

\* waitForDeployment: GET /v1/job/:id/summary resolves
JobSummaryResolve ==
    /\ wait.pc = "probe" /\ wait.kind = "deploy" /\ wait.sumRes = "pending"
    /\ \E sm \in Summaries : wait' = ObserveWait(wait, SummaryResolved(wait, sm, now), now)
    /\ UNCHANGED <<now, streams, cleanup, deploy, manager>>

\* waitForDeployment: either request of getStatus rejects, and so does Promise.all
JobProbeReject ==
    /\ wait.pc = "probe" /\ wait.kind = "deploy"
    /\ \E err \in ErrSet : wait' = ObserveWait(wait, OnDeployError(wait, err), now)
    /\ UNCHANGED <<now, streams, cleanup, deploy, manager>>

\* How a finished call ended: the condition was reached, a terminal status other
\* than the desired one was seen, the probe failed, or the time ran out.
OutcomeKind(w) ==
    IF w.obsLog # << >> /\ ~w.obsLog[Len(w.obsLog)].ok THEN "error"
    ELSE IF w.obsLog # << >> /\ w.obsLog[Len(w.obsLog)].status = w.desired
         THEN "reached"
    ELSE IF w.obsLog # << >>
            /\ w.obsLog[Len(w.obsLog)].status \in
                  (IF w.kind = "status" THEN TerminalStatuses ELSE {"dead"})
         THEN "terminal"
    ELSE "timeout"

\* the caller, having got the result of one call, makes the same call again;
\* the model keeps what the caller saw of the earlier calls
WaitAgain ==
    /\ wait.pc \in {"returned", "rejected"}
    /\ wait.calls + 1 < MaxCalls
    /\ wait' = ObserveWait(wait,
                  [WaitLoopHead(NewWait(wait.kind, wait.desired, wait.timeoutMs, now), now)
                      EXCEPT !.calls = wait.calls + 1,
                             !.past = wait.past \cup
                                 {[outcome |-> OutcomeKind(wait), result |-> wait.result]}],
                  now)
    /\ UNCHANGED <<now, streams, cleanup, deploy, manager>>

\* the 2000 ms timer fires and the loop condition is evaluated again
WaitSleepDone ==
    /\ wait.pc = "sleep"
    /\ now >= wait.wakeAt
    /\ wait' = ObserveWait(wait, WaitLoopHead(wait, now), now)
    /\ UNCHANGED <<now, streams, cleanup, deploy, manager>>

----------------------------------------------------------------------------
(* NomadClient.stopAndCleanup *)

(* NomadConfigManager and the NomadClient constructor *)

\* the configuration keys modelled
Keys == {"secretID", "authMethod", "useAuthorizationHeader", "tls"}

\* a key the object passed in does not have / the value undefined
Absent == "absent"
Undef == "undefined"

\* tls: undefined, {}, only clientCertPath, clientCertPath and clientKeyPath
EmptyTls == "{}"
HasCert(tls) == tls \in {"cert", "cert+key"}
HasKey(tls) == tls = "cert+key"

\* the objects handed to initialize / updateConfig
InputConfigs ==
    [secretID : {Absent, Undef, "tok"},
     authMethod : {Absent, "token", "bearer", "mtls"},
     useAuthorizationHeader : {Absent, "true"},
     tls : {Absent, Undef, "cert", "cert+key"}]

\* the NomadClient objects that may be constructed, and their token / tls options
ClientIds == {"c1", "c2"}
ClientTokens == {Undef, "tok"}
ClientTls == {Undef, "cert", "cert+key"}

\* config.key : undefined when the object has no such key
Get(config, k) == IF config[k] = Absent THEN Undef ELSE config[k]

\* a ?? b
Coalesce(a, b) == IF a = Undef THEN b ELSE a

\* the private constructor's defaults (environment variables unset)
Constructor(config) ==
    [secretID |-> Coalesce(Get(config, "secretID"), Undef),
     authMethod |-> Coalesce(Get(config, "authMethod"), "token"),
     useAuthorizationHeader |-> Coalesce(Get(config, "useAuthorizationHeader"), "false"),
     tls |-> Coalesce(Get(config, "tls"), EmptyTls)]

\* validateConfig throws
ValidateThrows(cfg) ==
    cfg.authMethod = "mtls" /\ ( ~HasCert(cfg.tls) \/ ~HasKey(cfg.tls) )

\* { ...this.config, ...newConfig }: every key newConfig has wins, also when
\* its value is undefined
Spread(cfg, newConfig) ==
    [k \in Keys |-> IF newConfig[k] # Absent THEN newConfig[k] ELSE cfg[k]]

\* no instance: the static field is unset
NullConfig == [k \in Keys |-> Undef]

\* instance: 0 for no instance, else the identity of the instance object;
\* made: instances created so far; clients: the instance each NomadClient
\* holds; tokenSeen: the secretID its getConfig() returned when it was built;
\* ret / threw: the instance the last call returned (0: none), whether it threw
NewManager ==
    [instance |-> 0, made |-> 0, config |-> NullConfig,
     clients |-> [c \in ClientIds |-> 0],
     tokenSeen |-> [c \in ClientIds |-> Undef],
     ret |-> 0, threw |-> FALSE]

\* updateConfig(newConfig): no validation
UpdateConfigOp(m, newConfig) ==
    [m EXCEPT !.config = Spread(m.config, newConfig), !.ret = 0, !.threw = FALSE]

\* new NomadConfigManager(config): defaults, then validateConfig()
Construct(m, config) ==
    IF ValidateThrows(Constructor(config))
    THEN [m EXCEPT !.threw = TRUE, !.ret = 0]
    ELSE [m EXCEPT !.instance = m.made + 1, !.made = @ + 1,
                   !.config = Constructor(config),
                   !.ret = m.made + 1, !.threw = FALSE]

\* static initialize(config)
InitializeOp_Fresh(m, config) == Construct(m, config)

InitializeOp(m, config) ==
    IF m.instance = 0
    THEN Construct(m, config)
    ELSE [UpdateConfigOp(m, config) EXCEPT !.ret = m.instance]

\* static reset()
ResetOp(m) ==
    [m EXCEPT !.instance = 0, !.config = NullConfig, !.ret = 0, !.threw = FALSE]

\* what the NomadClient constructor hands to initialize: secretID and tls are
\* always keys of it
ClientConfig(token, tls) ==
    [secretID |-> token, authMethod |-> Absent,
     useAuthorizationHeader |-> Absent, tls |-> tls]

\* new NomadClient({token, tls}): this.configManager = initialize({...})
NewClientOp(m, c, token, tls) ==
    LET m2 == InitializeOp(m, ClientConfig(token, tls))
    IN  IF m2.threw THEN m2
        ELSE [m2 EXCEPT !.clients[c] = m2.ret,
                        !.tokenSeen[c] = m2.config.secretID]

\* getAuthHeaders(): the headers as a set of name/value pairs
Header(name, scheme, secret) == [name |-> name, scheme |-> scheme, secret |-> secret]

GetAuthHeaders(cfg) ==
    IF cfg.secretID = Undef THEN {}
    ELSE IF cfg.useAuthorizationHeader = "true"
         THEN {Header("Authorization", "Bearer", cfg.secretID)}
    ELSE IF cfg.authMethod = "bearer"
         THEN {Header("Authorization", "Bearer", cfg.secretID)}
    ELSE {Header("X-Nomad-Token", "", cfg.secretID)}

(* Actions of the configuration manager *)

Initialize ==
    /\ manager.instance = 0 => manager.made < MaxInstances
    /\ \E config \in InputConfigs : manager' = InitializeOp(manager, config)
    /\ UNCHANGED <<now, streams, wait, cleanup, deploy>>

\* NomadConfigManager.getInstance().updateConfig(newConfig)
UpdateConfig ==
    /\ manager.instance # 0
    /\ \E newConfig \in InputConfigs : manager' = UpdateConfigOp(manager, newConfig)
    /\ UNCHANGED <<now, streams, wait, cleanup, deploy>>

Reset ==
    /\ manager.instance # 0
    /\ manager' = ResetOp(manager)
    /\ UNCHANGED <<now, streams, wait, cleanup, deploy>>

NewClient(c) ==
    /\ manager.clients[c] = 0
    /\ manager.instance = 0 => manager.made < MaxInstances
    /\ \E token \in ClientTokens, tls \in ClientTls :
         manager' = NewClientOp(manager, c, token, tls)
    /\ UNCHANGED <<now, streams, wait, cleanup, deploy>>

----------------------------------------------------------------------------
(* NomadJob.deploy *)

\* deploy(job) before its first statement; calls: the requests it has sent
NewDeploy ==
    [pc |-> "idle", calls |-> << >>, getRes |-> "none", updateRes |-> "none",
     createRes |-> "none", result |-> "none"]

\* await this.get(job.ID): the existence check goes out
IssueGet(d) == [d EXCEPT !.pc = "get", !.calls = Append(@, "get")]

\* return await this.update(job);
IssueUpdate(d) == [d EXCEPT !.pc = "update", !.calls = Append(@, "update")]

\* catch (error) { return await this.create(job); }
DeployCatch(d) == [d EXCEPT !.pc = "create", !.calls = Append(@, "create")]

\* get resolved: the job exists
OnGetResolved(d) == IssueUpdate([d EXCEPT !.getRes = "ok"])

\* get rejected, inside the try
OnGetRejected(d, err) == DeployCatch([d EXCEPT !.getRes = err])

\* update resolved: deploy resolves with its response
OnUpdateResolved(d) ==
    [d EXCEPT !.updateRes = "ok", !.pc = "resolved", !.result = "updated"]

\* update rejected: `return await` is still inside the try, the catch runs
OnUpdateRejected(d, err) == DeployCatch([d EXCEPT !.updateRes = err])

\* create resolved: deploy resolves with its response
OnCreateResolved(d) ==
    [d EXCEPT !.createRes = "ok", !.pc = "resolved", !.result = "created"]

\* create rejected, outside any try: deploy rejects with that error
OnCreateRejected(d, err) ==
    [d EXCEPT !.createRes = err, !.pc = "rejected", !.result = err]

(* Actions of deploy *)

DeployGetResolve ==
    /\ deploy.pc = "get"
    /\ deploy' = OnGetResolved(deploy)
    /\ UNCHANGED <<now, streams, wait, cleanup, manager>>

DeployGetReject ==
    /\ deploy.pc = "get"
    /\ \E err \in ErrSet : deploy' = OnGetRejected(deploy, err)
    /\ UNCHANGED <<now, streams, wait, cleanup, manager>>

DeployUpdateResolve ==
    /\ deploy.pc = "update"
    /\ deploy' = OnUpdateResolved(deploy)
    /\ UNCHANGED <<now, streams, wait, cleanup, manager>>

DeployUpdateReject ==
    /\ deploy.pc = "update"
    /\ \E err \in ErrSet : deploy' = OnUpdateRejected(deploy, err)
    /\ UNCHANGED <<now, streams, wait, cleanup, manager>>

DeployCreateResolve ==
    /\ deploy.pc = "create"
    /\ deploy' = OnCreateResolved(deploy)
    /\ UNCHANGED <<now, streams, wait, cleanup, manager>>

DeployCreateReject ==
    /\ deploy.pc = "create"
    /\ \E err \in ErrSet : deploy' = OnCreateRejected(deploy, err)
    /\ UNCHANGED <<now, streams, wait, cleanup, manager>>

----------------------------------------------------------------------------

\* no operation has been started yet
AllIdle ==
    /\ wait.pc = "idle"
    /\ cleanup.pc = "idle"
    /\ deploy.pc = "idle"
    /\ \A s \in StreamIds : streams[s].pc = "idle"

\* the allocation lists GET /v1/job/:id/allocations can answer with, as the
\* ClientStatus of each allocation
AllocLists == UNION { [1..n -> AllocationStatus] : n \in 0..MaxAllocs }

\* allocations.filter(alloc => alloc.ClientStatus === 'running' ||
\*                             alloc.ClientStatus === 'pending')
IsActive(status) == status = "running" \/ status = "pending"
ActiveAllocs(allocations) == SelectSeq(allocations, IsActive)

\* stopAndCleanup(jobId, purge) before its first statement (plus what the model
\* observes: requests sent, sleeps, the last list's active count, failures)
NewCleanup(purge) ==
    [pc |-> "idle", purge |-> purge, retries |-> 0, wakeAt |-> 0,
     stops |-> 0, probes |-> 0, sleeps |-> 0, lastActive |-> Undefined,
     failed |-> FALSE, result |-> "none", issuedAt |-> 0, settledAt |-> 0]

\* return true / return false
CleanupReturn(c, b) ==
    [c EXCEPT !.pc = "returned", !.result = IF b THEN "true" ELSE "false"]

\* await this.jobs.stop(jobId, purge): the stop request goes out
IssueStop(c) == [c EXCEPT !.pc = "stop", !.stops = @ + 1]

\* while (retries > 0) { const allocations = await this.jobs.allocations(jobId);
\* ... }  return false;
CleanupLoopHead(c) ==
    IF c.retries > 0
    THEN [c EXCEPT !.pc = "list", !.probes = @ + 1]
    ELSE CleanupReturn(c, FALSE)

\* the stop request resolved: let retries = 30; and the loop is entered
OnStopped(c) == CleanupLoopHead([c EXCEPT !.retries = CleanupRetries])

\* the allocation list arrived: filter, return true when nothing is active,
\* else sleep 2000 ms
OnAllocations(c, allocations, t) ==
    LET activeAllocs == ActiveAllocs(allocations)
        got == [c EXCEPT !.lastActive = Len(activeAllocs)]
    IN  IF Len(activeAllocs) = 0
        THEN CleanupReturn(got, TRUE)
        ELSE [got EXCEPT !.pc = "sleep", !.wakeAt = t + WaitIntervalMs,
                         !.sleeps = @ + 1]

\* the 2000 ms timer fired: retries--; and the loop condition again
OnCleanupSlept(c) == CleanupLoopHead([c EXCEPT !.retries = @ - 1])

\* catch (error) { return false; }
OnCleanupError_Rethrow(c) ==
    [c EXCEPT !.pc = "rejected", !.result = "rejected", !.failed = TRUE]

OnCleanupError(c) == CleanupReturn([c EXCEPT !.failed = TRUE], FALSE)

\* when the last request went out and when the last answer came in
ObserveCleanup(c, c2, t) ==
    [c2 EXCEPT !.issuedAt = IF c2.stops + c2.probes > c.stops + c.probes THEN t ELSE @,
               !.settledAt = IF c.pc \in {"stop", "list"} THEN t ELSE @]

(* Actions of stopAndCleanup *)

\* stopAndCleanup is called and runs to its first await
StopAndCleanup ==
    /\ AllIdle
    /\ \E purge \in BOOLEAN :
         cleanup' = ObserveCleanup(cleanup, IssueStop(NewCleanup(purge)), now)
    /\ UNCHANGED <<now, streams, wait, deploy, manager>>

\* DELETE /v1/job/:id resolves
StopResolve ==
    /\ cleanup.pc = "stop"
    /\ cleanup' = ObserveCleanup(cleanup, OnStopped(cleanup), now)
    /\ UNCHANGED <<now, streams, wait, deploy, manager>>

\* GET /v1/job/:id/allocations resolves
AllocationsResolve ==
    /\ cleanup.pc = "list"
    /\ \E allocations \in AllocLists :
         cleanup' = ObserveCleanup(cleanup, OnAllocations(cleanup, allocations, now), now)
    /\ UNCHANGED <<now, streams, wait, deploy, manager>>

\* the stop request or the allocation list request rejects
CleanupReject ==
    /\ cleanup.pc \in {"stop", "list"}
    /\ cleanup' = ObserveCleanup(cleanup, OnCleanupError(cleanup), now)
    /\ UNCHANGED <<now, streams, wait, deploy, manager>>

\* the 2000 ms timer fires
CleanupSleepDone ==
    /\ cleanup.pc = "sleep"
    /\ now >= cleanup.wakeAt
    /\ cleanup' = ObserveCleanup(cleanup, OnCleanupSlept(cleanup), now)
    /\ UNCHANGED <<now, streams, wait, deploy, manager>>

\* time passes while stopAndCleanup waits for an answer or for its timer
CleanupTick ==
    /\ cleanup.pc \in {"stop", "list", "sleep"}
    /\ cleanup.pc \in {"stop", "list"} => now + TickMs - cleanup.issuedAt <= MaxProbeMs
    /\ cleanup.pc = "sleep" => cleanup.wakeAt > now
    /\ now' = now + TickMs
    /\ UNCHANGED <<streams, wait, cleanup, deploy, manager>>

----------------------------------------------------------------------------

\* time passes; a timer that is due fires before the clock moves on
Tick ==
    /\ now + TickMs <= MaxTime
    /\ \A s \in StreamIds : streams[s].pc = "sleep" => streams[s].wakeAt > now
    /\ wait.pc = "sleep" => wait.wakeAt > now
    /\ now' = now + TickMs
    /\ UNCHANGED <<streams, wait, cleanup, deploy, manager>>

\* one operation (a stream of either module, or one wait helper) runs alone
StartStream(s) == AllIdle /\ StreamLogs(s)
StartWait == AllIdle /\ WaitCall

\* deploy(job) is called and runs to its first await
StartDeploy ==
    /\ AllIdle
    /\ deploy' = IssueGet(NewDeploy)
    /\ UNCHANGED <<now, streams, wait, cleanup, manager>>

Init ==
    /\ now = 0
    /\ streams = [s \in StreamIds |-> NewStream(FALSE)]
    /\ wait = NewWait("status", "running", 0, 0)
    /\ cleanup = NewCleanup(FALSE)
    /\ deploy = NewDeploy
    /\ manager = NewManager

Next ==
    \/ \E s \in StreamIds : StartStream(s)
    \/ \E s \in StreamIds : StopStreaming(s)
    \/ \E s \in StreamIds : LogsResolve(s)
    \/ \E s \in StreamIds : LogsReject(s)
    \/ \E s \in StreamIds : SleepDone(s)
    \/ StartWait
    \/ AllocGetResolve
    \/ AllocGetReject
    \/ TaskStatusResolve
    \/ TaskStatusReject
    \/ JobGetResolve
    \/ JobSummaryResolve
    \/ JobProbeReject
    \/ WaitSleepDone
    \/ StartDeploy
    \/ DeployGetResolve
    \/ DeployGetReject
    \/ DeployUpdateResolve
    \/ DeployUpdateReject
    \/ DeployCreateResolve
    \/ DeployCreateReject
    \/ Tick

Spec == Init /\ [][Next]_vars

\* Two streams tailed at the same time, one through each module, against a
\* server that answers with one of PairResponses or fails.
PairResponses ==
    { [ok |-> TRUE, Data |-> HelloB64, Offset |-> 5, err |-> "none"],
      [ok |-> TRUE, Data |-> EmptyData, Offset |-> 2, err |-> "none"] }

PairErrors == { r \in ErrResponses : r.err = "network" }

\* the caller opens both streams one after the other, without awaiting between
PairStart ==
    /\ AllIdle
    /\ \E hasOnError \in [StreamIds -> BOOLEAN] :
         streams' = [s \in StreamIds |->
                        ObserveStream(streams[s],
                                      LoopHead(s, NewStream(hasOnError[s])), now)]
    /\ UNCHANGED <<now, wait, cleanup, deploy, manager>>

PairResolve(s) ==
    /\ streams[s].pc = "fetch"
    /\ \E resp \in PairResponses :
         streams' = [streams EXCEPT ![s] =
                        ObserveStream(@, OnChunk(s, @, resp, "none", now), now)]
    /\ UNCHANGED <<now, wait, cleanup, deploy, manager>>

PairReject(s) ==
    /\ streams[s].pc = "fetch"
    /\ \E resp \in PairErrors :
         streams' = [streams EXCEPT ![s] = ObserveStream(@, OnReadError(s, @, resp), now)]
    /\ UNCHANGED <<now, wait, cleanup, deploy, manager>>

PairTick == now + TickMs <= MaxPairTime /\ Tick

NextPair ==
    \/ PairStart
    \/ \E s \in StreamIds : StopStreaming(s)
    \/ \E s \in StreamIds : PairResolve(s)
    \/ \E s \in StreamIds : PairReject(s)
    \/ \E s \in StreamIds : SleepDone(s)
    \/ PairTick

SpecPair == Init /\ [][NextPair]_vars

\* stopAndCleanup alone; every request is answered or fails in the end (the
\* HTTP client has a timeout) and a timer that is due fires
NextCleanup ==
    \/ StopAndCleanup
    \/ StopResolve
    \/ AllocationsResolve
    \/ CleanupReject
    \/ CleanupSleepDone
    \/ CleanupTick

SpecCleanup == Init /\ [][NextCleanup]_vars /\ WF_vars(NextCleanup)

\* The two implementations of streamLogs started with the same arguments against
\* the same server: a read of one and a read of the other at the same offset get
\* the same answer, and the consumer's onData behaves the same for both.
LockStart ==
    /\ AllIdle
    /\ \E hasOnError \in BOOLEAN :
         streams' = [s \in StreamIds |->
                        ObserveStream(streams[s],
                                      LoopHead(s, NewStream(hasOnError)), now)]
    /\ UNCHANGED <<now, wait, cleanup, deploy, manager>>

\* both reads are out and ask for the same offset
SameRequest ==
    /\ \A s \in StreamIds : streams[s].pc = "fetch"
    /\ RequestedOffset(Last(streams["alloc"].reqLog))
         = RequestedOffset(Last(streams["task"].reqLog))

LockResolve ==
    /\ SameRequest
    /\ \E resp \in OkResponses, thrown \in Thrown :
         streams' = [s \in StreamIds |->
                        ObserveStream(streams[s],
                                      OnChunk(s, streams[s], resp, thrown, now), now)]
    /\ UNCHANGED <<now, wait, cleanup, deploy, manager>>

LockReject ==
    /\ SameRequest
    /\ \E resp \in ErrResponses :
         streams' = [s \in StreamIds |->
                        ObserveStream(streams[s], OnReadError(s, streams[s], resp), now)]
    /\ UNCHANGED <<now, wait, cleanup, deploy, manager>>

\* both 1000 ms timers fire
LockSleepDone ==
    /\ \A s \in StreamIds :
         /\ streams[s].pc = "sleep"
         /\ now >= streams[s].wakeAt
         /\ Len(streams[s].reqLog) < MaxLockReads
    /\ streams' = [s \in StreamIds |->
                      ObserveStream(streams[s], LoopHead(s, streams[s]), now)]
    /\ UNCHANGED <<now, wait, cleanup, deploy, manager>>

\* time passes while both loops sleep
LockTick ==
    /\ \A s \in StreamIds : streams[s].pc = "sleep"
    /\ Tick

NextLock ==
    \/ LockStart
    \/ LockResolve
    \/ LockReject
    \/ LockSleepDone
    \/ LockTick

SpecLock == Init /\ [][NextLock]_vars

\* the configuration manager and the clients built on it
NextConfig ==
    \/ Initialize
    \/ UpdateConfig
    \/ Reset
    \/ \E c \in ClientIds : NewClient(c)

SpecConfig == Init /\ [][NextConfig]_vars

\* the same, with a caller that repeats its wait call
NextRepeat == Next \/ WaitAgain

SpecRepeat == Init /\ [][NextRepeat]_vars

----------------------------------------------------------------------------
(* Properties *)

\* C1: once cancel has returned (running = false), onData is never invoked
\* again, also when a read was in flight at the time of the cancel.
C1_NoDataAfterCancel ==
    [][\A s \in StreamIds :
         ~streams[s].running =>
            streams'[s].onDataCalls = streams[s].onDataCalls]_vars

\* C2: once cancel has returned, no new log read is started; the only read that
\* may still complete is the one that was in flight.
C2_NoReadAfterCancel ==
    [][\A s \in StreamIds :
         ~streams[s].running =>
            /\ streams'[s].reqLog = streams[s].reqLog
            /\ streams'[s].inflight <= streams[s].inflight
            /\ Len(streams'[s].respLog) <= Len(streams[s].respLog) + streams[s].inflight
      ]_vars

\* cancel arrived while the second read was in flight; that read completed and
\* the loop then left without a third read
C2_Witness ==
    \E s \in StreamIds :
        /\ streams[s].cancelAt = "fetch"
        /\ streams[s].pc = "exit"
        /\ Len(streams[s].reqLog) = 2
        /\ Len(streams[s].respLog) = 2
        /\ Last(streams[s].respLog).ok

\* C3: in every operation at most one probe is in flight: probe N+1 is issued
\* only after the outcome of probe N has been observed.
C3_AtMostOneInFlight ==
    /\ \A s \in StreamIds :
         /\ streams[s].inflight <= 1
         /\ Len(streams[s].reqLog) <= Len(streams[s].respLog) + 1
    /\ wait.inflight <= 1

\* a second read is in flight after the first one was answered
C3_Witness ==
    \E s \in StreamIds :
        /\ streams[s].inflight = 1
        /\ Len(streams[s].reqLog) = 2
        /\ Len(streams[s].respLog) = 1

\* C4: waitForStatus(id, 'complete'): a probe failure other than not-found
\* makes the helper return false.
C4_OtherFailureIsFalse ==
    ( /\ wait.kind = "status" /\ wait.desired = "complete"
      /\ wait.pc = "returned"
      /\ wait.obsLog # << >>
      /\ ~Last(wait.obsLog).ok
      /\ Last(wait.obsLog).err # "notfound" )
    => wait.result = "false"

\* C5: waitForStatus(id, 'complete'): a not-found probe failure makes the helper
\* return true, and no probe follows it.
C5_NotFoundIsComplete ==
    ( /\ wait.kind = "status" /\ wait.desired = "complete"
      /\ wait.obsLog # << >>
      /\ Last(wait.obsLog).err = "notfound" )
    => /\ wait.pc = "returned"
       /\ wait.result = "true"
       /\ wait.inflight = 0

\* the first probe failed with not-found and the helper has returned
C5_Witness ==
    /\ wait.kind = "status" /\ wait.desired = "complete"
    /\ Len(wait.obsLog) = 1
    /\ wait.obsLog[1].err = "notfound"
    /\ wait.result = "true"

\* a read failed while the stream was not cancelled and onError was supplied
ReadFailedUncancelled(st) ==
    /\ st.respLog # << >>
    /\ ~Last(st.respLog).ok
    /\ st.hasOnError
    /\ st.cancelAt \in {"never", "exit"}

\* C6: a read failure in an uncancelled stream with onError: onError is invoked
\* exactly once, the loop has left, and from then on there is no further read,
\* no further onData and no further onError.
C6_ErrorOnceThenSilence ==
    /\ [](\A s \in StreamIds :
            ReadFailedUncancelled(streams[s]) =>
                /\ Len(streams[s].onErrorCalls) = 1
                /\ streams[s].onErrorCalls[1] = Last(streams[s].respLog).err
                /\ streams[s].pc = "exit"
                /\ streams[s].inflight = 0)
    /\ [][\A s \in StreamIds :
            ReadFailedUncancelled(streams[s]) =>
                /\ streams'[s].reqLog = streams[s].reqLog
                /\ streams'[s].onDataCalls = streams[s].onDataCalls
                /\ streams'[s].onErrorCalls = streams[s].onErrorCalls]_vars

\* data was delivered, then the second read failed and onError was called
C6_Witness ==
    \E s \in StreamIds :
        /\ ReadFailedUncancelled(streams[s])
        /\ Len(streams[s].respLog) = 2
        /\ Len(streams[s].onDataCalls) = 1
        /\ Len(streams[s].onErrorCalls) = 1

\* C7: a successful read with empty Data and an Offset: onData is not invoked
\* and the stream's offset becomes that Offset.
C7_EmptyChunkAdvancesOffset ==
    [][\A s \in StreamIds :
         ( /\ Len(streams'[s].respLog) = Len(streams[s].respLog) + 1
           /\ Last(streams'[s].respLog).ok
           /\ Last(streams'[s].respLog).Data = EmptyData
           /\ Last(streams'[s].respLog).Offset # Undefined )
         => /\ streams'[s].onDataCalls = streams[s].onDataCalls
            /\ streams'[s].offset = Last(streams'[s].respLog).Offset]_vars

\* the offset the next read of the stream asks the server for
CurrentOffset(s) == RequestedOffset(OffsetParam(s, streams[s].offset))

\* C8: the current offset of a stream (the offset its next read is requested
\* at) never decreases.
C8_OffsetNeverDecreases ==
    [][\A s \in StreamIds :
         RequestedOffset(OffsetParam(s, streams'[s].offset)) >= CurrentOffset(s)]_vars

\* the ok responses of a log whose Data is not the empty string
NonEmptyChunks(respLog) ==
    {i \in 1..Len(respLog) : respLog[i].ok /\ respLog[i].Data # EmptyData}

\* C9: onData is never given the empty string, a chunk with empty Data gives no
\* onData call, and the responses {Data: "", Offset: N}, {Data: base64("hello"),
\* Offset: N + 5} give exactly one onData call, with "hello".
C9_NoEmptyOnData ==
    \A s \in StreamIds :
        /\ \A i \in 1..Len(streams[s].onDataCalls) :
              streams[s].onDataCalls[i] # << >>
        /\ Len(streams[s].onDataCalls) <= Cardinality(NonEmptyChunks(streams[s].respLog))
        /\ \A n \in OffsetSet \ {Undefined} :
              streams[s].respLog =
                  << [ok |-> TRUE, Data |-> EmptyData, Offset |-> n, err |-> "none"],
                     [ok |-> TRUE, Data |-> HelloB64, Offset |-> n + 5, err |-> "none"] >>
              => streams[s].onDataCalls = <<Hello>>

\* the responses {Data: "", Offset: 0}, {Data: base64("hello"), Offset: 5} were
\* received and handled
C9_Witness ==
    \E s \in StreamIds :
        /\ streams[s].respLog =
              << [ok |-> TRUE, Data |-> EmptyData, Offset |-> 0, err |-> "none"],
                 [ok |-> TRUE, Data |-> HelloB64, Offset |-> 5, err |-> "none"] >>
        /\ streams[s].onDataCalls = <<Hello>>

\* C10: waitForStatus: a probe that observes a terminal status other than the
\* desired one makes the helper return false at once: no sleep follows that
\* observation and no further probe is issued.
C10_TerminalMismatchFalse ==
    ( /\ wait.kind = "status"
      /\ wait.obsLog # << >>
      /\ Last(wait.obsLog).ok
      /\ Last(wait.obsLog).status \in TerminalStatuses
      /\ Last(wait.obsLog).status # wait.desired )
    => /\ wait.pc = "returned"
       /\ wait.result = "false"
       /\ wait.inflight = 0
       /\ wait.sleeps = Len(wait.obsLog) - 1

\* probes [pending, failed] with desiredStatus 'running': false, with the
\* timeout not yet elapsed
C10_Witness ==
    /\ wait.kind = "status" /\ wait.desired = "running"
    /\ Len(wait.obsLog) = 2
    /\ wait.obsLog[1].status = "pending"
    /\ wait.obsLog[2].status = "failed"
    /\ wait.result = "false"
    /\ now - wait.startTime < wait.timeoutMs

\* the statuses of a wait helper that make it return whatever is desired
TerminalOf(kind) ==
    IF kind = "status" THEN TerminalStatuses
    ELSE IF kind = "state" THEN {"dead"}
    ELSE {}

\* every probe so far succeeded with a non-terminal status other than the desired one
AllPending(w) ==
    \A i \in 1..Len(w.obsLog) :
        /\ w.obsLog[i].ok
        /\ w.obsLog[i].status # w.desired
        /\ w.obsLog[i].status \notin TerminalOf(w.kind)

\* the observations before the last one
Front(seq) == SubSeq(seq, 1, Len(seq) - 1)

\* C11: waitForStatus with timeoutMs > 0 and probes of negligible duration:
\* after k non-terminal statuses other than the desired one, with
\* k * 2000 < timeoutMs, the helper is still polling (it has not timed out), and
\* when the desired status follows it returns true after k + 1 probes and k
\* sleeps, k * 2000 ms after its start (without sleeping for k = 0).
C11_DesiredAfterKPending ==
    ( /\ wait.kind = "status" /\ wait.pc # "idle"
      /\ wait.timeoutMs > 0
      /\ wait.busyMs = 0 )
    => /\ ( AllPending(wait) /\ Len(wait.obsLog) * WaitIntervalMs < wait.timeoutMs )
            => /\ wait.pc \in {"probe", "sleep"}
               /\ wait.sleeps = Len(wait.obsLog)
       /\ ( /\ wait.obsLog # << >>
            /\ Last(wait.obsLog).ok
            /\ Last(wait.obsLog).status = wait.desired
            /\ AllPending([wait EXCEPT !.obsLog = Front(@)]) )
            => /\ wait.pc = "returned"
               /\ wait.result = "true"
               /\ wait.sleeps = Len(wait.obsLog) - 1
               /\ wait.doneAt - wait.startTime = wait.sleeps * WaitIntervalMs

\* [pending, pending, running] with desiredStatus 'running' and timeout 6000 ms:
\* true after the third probe, 4000 ms after the start
C11_Witness ==
    /\ wait.kind = "status" /\ wait.desired = "running"
    /\ wait.timeoutMs = 6000
    /\ wait.busyMs = 0
    /\ Len(wait.obsLog) = 3
    /\ wait.obsLog[1].status = "pending"
    /\ wait.obsLog[2].status = "pending"
    /\ wait.obsLog[3].status = "running"
    /\ wait.result = "true"
    /\ wait.sleeps = 2
    /\ wait.doneAt - wait.startTime = 4000

\* the time the helper spent waiting for its last settled probe
LastProbeMs(w) == IF w.obsLog = << >> THEN 0 ELSE w.settledAt - w.issuedAt

\* some probe has been started
Probed(w) == Len(w.obsLog) + w.inflight > 0

\* C12 (as stated): when every probe of waitForStatus yields a non-terminal
\* status other than the desired one, the helper resolves to false within
\* timeoutMs + 2000 ms of its start, and no probe is started once timeoutMs has
\* elapsed.
C12_FalseWithinOneInterval ==
    ( wait.kind = "status" /\ wait.pc # "idle" )
    => /\ Probed(wait) => wait.issuedAt - wait.startTime < wait.timeoutMs
       /\ ( AllPending(wait) /\ wait.pc \in {"returned", "rejected"} )
            => /\ wait.result = "false"
               /\ wait.doneAt - wait.startTime <= wait.timeoutMs + WaitIntervalMs

\* C12 (amended): ... the helper resolves to false within timeoutMs + 2000 ms
\* plus the duration of its last probe (so within timeoutMs + 2000 ms when
\* probes take no time), and no probe is started once timeoutMs has elapsed.
C12_FalseWithinIntervalPlusProbe ==
    ( wait.kind = "status" /\ wait.pc # "idle" )
    => /\ Probed(wait) => wait.issuedAt - wait.startTime < wait.timeoutMs
       /\ ( AllPending(wait) /\ wait.pc \in {"returned", "rejected"} )
            => /\ wait.result = "false"
               /\ wait.doneAt - wait.startTime
                      <= wait.timeoutMs + WaitIntervalMs + LastProbeMs(wait)
               /\ wait.busyMs = 0
                      => wait.doneAt - wait.startTime <= wait.timeoutMs + WaitIntervalMs

\* a timeout that came later than timeoutMs + 2000 ms because the last probe
\* was slow
C12_Witness ==
    /\ wait.kind = "status"
    /\ wait.timeoutMs > 0
    /\ wait.obsLog # << >> /\ AllPending(wait)
    /\ wait.pc = "returned" /\ wait.result = "false"
    /\ LastProbeMs(wait) > 0
    /\ wait.doneAt - wait.startTime > wait.timeoutMs + WaitIntervalMs

\* C13: waitForStatus with a desired status other than 'complete', and
\* waitForState with any desired state: a probe failure makes the helper
\* resolve to false; it does not reject and no probe follows the failed one.
C13_ProbeFailureIsFalse ==
    ( /\ \/ wait.kind = "status" /\ wait.desired # "complete"
         \/ wait.kind = "state"
      /\ wait.obsLog # << >>
      /\ ~Last(wait.obsLog).ok )
    => /\ wait.pc = "returned"
       /\ wait.result = "false"
       /\ wait.inflight = 0
       /\ wait.doneAt = wait.settledAt

\* waitForState: the second probe failed after a first one that made it sleep
C13_Witness ==
    /\ wait.kind = "state"
    /\ Len(wait.obsLog) = 2
    /\ wait.obsLog[1].ok
    /\ ~wait.obsLog[2].ok
    /\ wait.result = "false"

\* C14: a failed probe of waitForDeployment (job fetch or summary fetch) makes
\* the helper resolve to false; it does not reject.
C14_DeployProbeFailureIsFalse ==
    ( /\ wait.kind = "deploy"
      /\ wait.obsLog # << >>
      /\ ~Last(wait.obsLog).ok )
    => /\ wait.pc = "returned"
       /\ wait.result = "false"

\* C15: as soon as a probe of waitForDeployment observes the job status 'dead',
\* the helper returns false, without waiting for the timeout.
C15_DeadJobStopsDeployWait ==
    ( /\ wait.kind = "deploy"
      /\ wait.obsLog # << >>
      /\ Last(wait.obsLog).ok
      /\ Last(wait.obsLog).status = "dead" )
    => /\ wait.pc = "returned"
       /\ wait.result = "false"
       /\ wait.doneAt = wait.settledAt

\* C19: waitForState returns true as soon as the task state is the desired one
\* (also for 'dead'); returns false at once, without sleeping, on 'dead' when
\* another state is desired; and returns false with no further probe when the
\* probe fails (allocation fetch failed, or task absent from TaskStates).
C19_WaitForState ==
    ( wait.kind = "state" /\ wait.obsLog # << >> )
    => LET obs == Last(wait.obsLog)
           stopped == /\ wait.pc = "returned"
                      /\ wait.inflight = 0
                      /\ wait.sleeps = Len(wait.obsLog) - 1
                      /\ wait.doneAt = wait.settledAt
       IN  /\ ( obs.ok /\ obs.status = wait.desired )
                => stopped /\ wait.result = "true"
           /\ ( obs.ok /\ obs.status = "dead" /\ wait.desired # "dead" )
                => stopped /\ wait.result = "false"
           /\ ~obs.ok
                => stopped /\ wait.result = "false"

\* [pending, dead] with desiredState 'running': false right after the second
\* probe, before the timeout
C19_Witness ==
    /\ wait.kind = "state" /\ wait.desired = "running"
    /\ Len(wait.obsLog) = 2
    /\ wait.obsLog[1].status = "pending"
    /\ wait.obsLog[2].status = "dead"
    /\ wait.result = "false"
    /\ wait.sleeps = 1
    /\ wait.doneAt - wait.startTime < wait.timeoutMs

\* C16: the caller of waitForStatus / waitForState can tell the four kinds of
\* outcome apart: two calls that ended in different kinds of outcome did not
\* hand the same result to the caller.
C16_OutcomesDistinguishable ==
    ( wait.kind \in {"status", "state"} /\ wait.pc \in {"returned", "rejected"} )
    => \A p \in wait.past :
          p.outcome # OutcomeKind(wait) => p.result # wait.result

\* C17: two streams running at the same time share no mutable state: a step
\* of one open stream (its cancel, a failed read, any other) leaves the state of the
\* other stream as it was, so it neither stops the other stream nor changes the
\* offset the other stream requests; a stream is only ever stopped by its own
\* cancel function.
C17_StreamsIndependent ==
    /\ [][\A s \in StreamIds : \A t \in StreamIds \ {s} :
            ( streams[s].pc # "idle" /\ streams'[s] # streams[s] )
            => streams'[t] = streams[t]]_vars
    /\ [](\A s \in StreamIds :
            ~streams[s].running => streams[s].cancelAt # "never")

\* the allocation-module stream ended on a failed read (or was cancelled after
\* it); later the task-module stream, still running, issued its second read at
\* the offset it had reached
C17_Witness ==
    /\ streams["alloc"].pc = "exit"
    /\ streams["alloc"].respLog # << >>
    /\ ~Last(streams["alloc"].respLog).ok
    /\ ~streams["alloc"].running
    /\ streams["task"].running
    /\ streams["task"].pc = "fetch"
    /\ Len(streams["task"].reqLog) = 2
    /\ streams["task"].offset = 5
    /\ Last(streams["task"].reqLog) = ToString(5)
    /\ streams["task"].issuedAt > streams["alloc"].settledAt

\* the statuses that end a wait whatever the desired one is; for a job, 'dead'
SpecTerminalOf(kind) ==
    IF kind = "deploy" THEN {"dead"} ELSE TerminalOf(kind)

\* C18: no busy-spinning: a stream issues a new read only 1000 ms or more after
\* the previous read returned, a wait helper (waitForStatus, waitForState,
\* waitForDeployment) a new probe only 2000 ms or more after the previous one
\* returned, and nothing sleeps after a probe that failed or that yielded the
\* desired or a terminal status.
C18_NoBusySpin ==
    /\ \A s \in StreamIds :
         /\ ( streams[s].pc = "fetch" /\ streams[s].respLog # << >> )
              => streams[s].issuedAt - streams[s].settledAt >= StreamIntervalMs
         /\ streams[s].pc = "sleep" => Last(streams[s].respLog).ok
    /\ ( wait.pc = "probe" /\ wait.obsLog # << >> )
         => wait.issuedAt - wait.settledAt >= WaitIntervalMs
    /\ wait.pc = "sleep"
         => /\ Last(wait.obsLog).ok
            /\ wait.kind # "deploy" => Last(wait.obsLog).status # wait.desired
            /\ Last(wait.obsLog).status \notin SpecTerminalOf(wait.kind)

\* C20: stopAndCleanup always terminates; it sends one stop request and then at
\* most 30 allocation-list probes with a 2000 ms sleep between two probes; it
\* returns true exactly when a probe saw no running or pending allocation,
\* false after the 30th probe that saw one, and false, never a rejection, when
\* the stop request or a probe fails.
C20_StopAndCleanup ==
    /\ [](cleanup.pc # "idle"
            => /\ cleanup.stops = 1
               /\ cleanup.probes <= CleanupRetries
               /\ cleanup.pc # "rejected"
               /\ cleanup.pc = "stop" => cleanup.probes = 0
               /\ cleanup.pc = "list"
                    => /\ cleanup.sleeps = cleanup.probes - 1
                       /\ cleanup.probes > 1
                            => cleanup.issuedAt - cleanup.settledAt >= WaitIntervalMs
               /\ cleanup.pc = "returned"
                    => /\ cleanup.result = "true"
                            <=> ( ~cleanup.failed /\ cleanup.lastActive = 0 )
                       /\ cleanup.failed => cleanup.result = "false"
                       /\ ( ~cleanup.failed /\ cleanup.lastActive # 0 )
                            => /\ cleanup.result = "false"
                               /\ cleanup.probes = CleanupRetries
                               /\ cleanup.sleeps = CleanupRetries)
    /\ (cleanup.pc # "idle") ~> (cleanup.pc = "returned")

\* thirty probes all saw an active allocation and the call returned false
C20_Witness ==
    /\ cleanup.pc = "returned"
    /\ cleanup.result = "false"
    /\ ~cleanup.failed
    /\ cleanup.probes = CleanupRetries
    /\ cleanup.lastActive > 0

\* C25: when a log read fails after cancel was called, onError is not invoked;
\* onError is invoked at most once per stream, and never once the cancel call has
\* returned.
C25_NoErrorAfterCancel ==
    /\ [][\A s \in StreamIds :
            ~streams[s].running =>
                streams'[s].onErrorCalls = streams[s].onErrorCalls]_vars
    /\ [](\A s \in StreamIds :
            /\ Len(streams[s].onErrorCalls) <= 1
            /\ ( /\ streams[s].cancelAt = "fetch"
                 /\ Len(streams[s].respLog) = Len(streams[s].reqLog)
                 /\ streams[s].respLog # << >>
                 /\ ~Last(streams[s].respLog).ok )
               => streams[s].onErrorCalls = << >>)

\* a stream with onError was cancelled while its second read was in flight, the
\* read then failed, and the loop left without calling onError
C25_Witness ==
    \E s \in StreamIds :
        /\ streams[s].hasOnError
        /\ streams[s].cancelAt = "fetch"
        /\ ~streams[s].running
        /\ Len(streams[s].respLog) = 2
        /\ ~Last(streams[s].respLog).ok
        /\ streams[s].pc = "exit"
        /\ streams[s].onErrorCalls = << >>

\* what onError is handed when it is called for the last failure of the stream
OnErrorArgs(st) == IF st.hasOnError /\ st.running THEN <<st.thrown>> ELSE << >>

\* C26 (as stated): when onData throws, onError (if supplied and the stream is
\* not cancelled) is invoked once with that exception, the offset is not advanced
\* for that chunk, and polling stops with no further log read.
C26_OnDataThrowPassedOn ==
    /\ [][\A s \in StreamIds :
            ( streams[s].thrown = "none" /\ streams'[s].thrown # "none" )
            => /\ streams'[s].offset = streams[s].offset
               /\ streams'[s].pc = "exit"
               /\ streams'[s].onErrorCalls = OnErrorArgs(streams'[s])]_vars
    /\ [](\A s \in StreamIds :
            streams[s].thrown # "none"
            => /\ streams[s].pc = "exit"
               /\ streams[s].inflight = 0
               /\ Len(streams[s].reqLog) = Len(streams[s].respLog))

\* what onError is handed: the thrown value when it is an Error, else a new
\* Error('Stream error')
OnErrorArgsWrapped(st) ==
    IF st.hasOnError /\ st.running
    THEN <<IF st.thrown = "nonError" THEN "StreamError" ELSE st.thrown>>
    ELSE << >>

\* C26 (amended): when onData throws, onError (if supplied and the stream is not
\* cancelled) is invoked once, with the thrown value if it is an Error and with
\* a new Error('Stream error') otherwise; the offset is not advanced for that
\* chunk, and polling stops with no further log read.
C26_OnDataThrowWrapped ==
    /\ [][\A s \in StreamIds :
            ( streams[s].thrown = "none" /\ streams'[s].thrown # "none" )
            => /\ streams'[s].offset = streams[s].offset
               /\ streams'[s].pc = "exit"
               /\ streams'[s].onErrorCalls = OnErrorArgsWrapped(streams'[s])]_vars
    /\ [](\A s \in StreamIds :
            streams[s].thrown # "none"
            => /\ streams[s].pc = "exit"
               /\ streams[s].inflight = 0
               /\ Len(streams[s].reqLog) = Len(streams[s].respLog))

\* onData threw a non-Error on the second chunk of an uncancelled stream with onError, and
\* time has passed since without a further read
C26_Witness ==
    \E s \in StreamIds :
        /\ streams[s].thrown = "nonError"
        /\ streams[s].hasOnError
        /\ streams[s].running
        /\ Len(streams[s].onDataCalls) = 2
        /\ streams[s].onErrorCalls = <<"StreamError">>
        /\ Last(streams[s].respLog).Offset = 5
        /\ streams[s].offset # 5
        /\ now > streams[s].settledAt + StreamIntervalMs

\* C27: a stream loop that has exited never restarts: no further log read,
\* onData call or onError call in any later state; and calling cancel again, in
\* any state, has the effect of calling it once.
C27_ExitIsFinal ==
    /\ [][\A s \in StreamIds :
            streams[s].pc = "exit"
            => /\ streams'[s].pc = "exit"
               /\ streams'[s].reqLog = streams[s].reqLog
               /\ streams'[s].inflight = 0
               /\ streams'[s].onDataCalls = streams[s].onDataCalls
               /\ streams'[s].onErrorCalls = streams[s].onErrorCalls]_vars
    /\ [](\A s \in StreamIds :
            StopStreamingOp(StopStreamingOp(streams[s])) = StopStreamingOp(streams[s]))
    /\ [][\A s \in StreamIds :
            ~streams[s].running => ~streams'[s].running]_vars

\* a stream left on a failed read, was cancelled afterwards, and time has passed
C27_Witness ==
    \E s \in StreamIds :
        /\ streams[s].pc = "exit"
        /\ streams[s].cancelAt = "exit"
        /\ ~streams[s].running
        /\ ~Last(streams[s].respLog).ok
        /\ now > streams[s].settledAt + StreamIntervalMs

\* C28: with timeoutMs <= 0 a wait helper (waitForStatus, waitForState,
\* waitForDeployment) issues no probe and resolves to false, whatever the desired
\* status is.
C28_NoProbeWithoutTimeout ==
    ( wait.pc # "idle" /\ wait.timeoutMs <= 0 )
    => /\ wait.pc = "returned"
       /\ wait.result = "false"
       /\ wait.obsLog = << >>
       /\ wait.inflight = 0
       /\ wait.sleeps = 0
       /\ wait.doneAt = wait.startTime

\* waitForStatus(id, 'complete', 0) has returned false
C28_Witness ==
    /\ wait.kind = "status"
    /\ wait.desired = "complete"
    /\ wait.timeoutMs = 0
    /\ wait.pc = "returned"
    /\ wait.result = "false"

\* the offsets the server was asked to read from
RequestedOffsets(st) == [i \in 1..Len(st.reqLog) |-> RequestedOffset(st.reqLog[i])]

\* C29: the two implementations of streamLogs, started with the same arguments
\* against the same server, request the same sequence of offsets and make the
\* same sequence of onData calls, whatever the responses are.
C29_StreamLogsEquivalent ==
    /\ RequestedOffsets(streams["alloc"]) = RequestedOffsets(streams["task"])
    /\ streams["alloc"].onDataCalls = streams["task"].onDataCalls

\* the request was sent by deploy
Invoked(d, req) == \E i \in 1..Len(d.calls) : d.calls[i] = req

\* the request failed
Failed(res) == res \in ErrSet

\* C21: deploy creates the job only when it does not exist: create is invoked
\* if and only if the existence check get fails; when get succeeds only update
\* is invoked, and a failure of update is passed on to the caller without create
\* being called.
C21_CreateOnlyWhenAbsent ==
    /\ ( deploy.pc \notin {"idle", "get"} )
         => ( Invoked(deploy, "create") <=> Failed(deploy.getRes) )
    /\ deploy.getRes = "ok" => deploy.calls \in {<<"get">>, <<"get", "update">>}
    /\ Failed(deploy.updateRes)
         => /\ deploy.pc = "rejected"
            /\ deploy.result = deploy.updateRes
            /\ ~Invoked(deploy, "create")

\* C22: in every state of NomadConfigManager, after any sequence of initialize,
\* updateConfig and reset, authMethod = 'mtls' implies that tls.clientCertPath
\* and tls.clientKeyPath are both set.
C22_MtlsHasCertAndKey ==
    ( manager.instance # 0 /\ manager.config.authMethod = "mtls" )
    => ( HasCert(manager.config.tls) /\ HasKey(manager.config.tls) )

\* C23: with authMethod = 'mtls', getAuthHeaders returns no authentication
\* header, also when a secretID is configured.
C23_MtlsSendsNoAuthHeader ==
    ( manager.instance # 0 /\ manager.config.authMethod = "mtls" )
    => GetAuthHeaders(manager.config) = {}

\* C24: NomadConfigManager is a process-wide singleton: until reset, every
\* initialize returns the one instance and overwrites its configuration with
\* the keys of its argument; so a NomadClient built second gets the instance
\* the first one holds and changes what the first one's getConfig() returns.
C24_SingletonOverwritten ==
    /\ [][( manager.instance # 0 /\ manager'.ret # 0 )
          => \A config \in InputConfigs :
                manager' = InitializeOp(manager, config)
                => /\ manager'.ret = manager.instance
                   /\ manager'.instance = manager.instance
                   /\ \A k \in Keys :
                        manager'.config[k] = IF config[k] # Absent THEN config[k]
                                             ELSE manager.config[k]]_vars
    /\ [][\A c \in ClientIds :
            ( manager.instance # 0 /\ manager.clients[c] = 0 /\ manager'.clients[c] # 0 )
            => /\ manager'.clients[c] = manager.instance
               /\ manager'.instance = manager.instance
               /\ manager'.config.secretID = manager'.tokenSeen[c]
               /\ manager'.config.authMethod = manager.config.authMethod]_vars
    /\ [](\A c \in ClientIds :
            manager.clients[c] # 0 => manager.clients[c] <= manager.made)

\* both clients hold the one instance, the first was built with a token, and
\* its getConfig() now returns the second one's missing token
C24_Witness ==
    /\ manager.instance = 1
    /\ manager.made = 1
    /\ manager.clients["c1"] = 1
    /\ manager.clients["c2"] = 1
    /\ manager.tokenSeen["c1"] = "tok"
    /\ manager.tokenSeen["c2"] = Undef
    /\ manager.config.secretID = Undef

====
